---- MODULE Spec2Model ----
(***************************************************************************)
(* DeepWebResearcher: the research workflow of draftagent.py and the job   *)
(* table of app.py.                                                        *)
(*                                                                         *)
(* Text is a sequence of tokens.  A token is a piece of a Python string:   *)
(* a literal of a format string ("Source: "), a character that a pattern   *)
(* of the code looks at (".", " ", "\n"), a piece of a tag ("<th", "ink>") *)
(* or an opaque word.  The empty string is <<>>; concatenation is \o.      *)
(***************************************************************************)
EXTENDS Integers, Sequences, FiniteSets, TLC

VARIABLES
    arg,        \* the argument of the function under test (SpecRefs, SpecStrip)
    ret,        \* its return value, NotCalled before the call
    wpc,        \* SpecWorkflow: the node the graph runs next, or where it ended
    wstate,     \* the workflow state (ResearchState) accumulated so far
    exc,        \* str(e) of the exception the run raised, <<>> if none
    raised_in,  \* the node that raised it, "" if none
    wresult,    \* what conduct_research_workflow returned, NoResult before
    log,        \* the collaborator calls made so far, in order
    research_results,   \* Spec: app.py's table, research_id -> record
    next_id,    \* the research_id the next accepted submission gets
    pc,         \* per research_id: where its background thread stands
    locals,     \* per research_id: the thread's arguments and local variables
    now,        \* the clock, in days
    to_delete,  \* the reaper's list of ids still to delete in this pass
    poll        \* SpecPoll: where a get_research_results request stands

fnVars == <<arg, ret>>
wfVars == <<wpc, wstate, exc, raised_in, wresult, log>>
jobVars == <<research_results, next_id, pc, locals, now, to_delete>>
pollVars == <<poll>>
vars == <<arg, ret, wpc, wstate, exc, raised_in, wresult, log,
          research_results, next_id, pc, locals, now, to_delete, poll>>

NotCalled == <<"<not called>">>

\* The value of a result variable before the workflow has returned.
NoResult == [status |-> <<"<not returned>">>]

\* All sequences over S of length at most n.
SeqUpTo(S, n) == UNION {[1..k -> S] : k \in 0..n}

Min(S) == CHOOSE x \in S : \A y \in S : x <= y

(***************************************************************************)
(* Bounds.                                                                 *)
(***************************************************************************)
MaxRecords == 2     \* verification records given to extract_references
MaxHits == 2        \* search results formatted into one evidence text
MaxDraftLen == 5    \* tokens of a raw draft given to the think-tag removal
MaxClaims == 2      \* items of a JSON list the claim-extraction model returns
MaxJobs == 2        \* submissions accepted in one behaviour
MaxTime == 2        \* days the clock runs

(***************************************************************************)
(* Python string helpers.                                                  *)
(***************************************************************************)
\* str(n) for a natural number: its decimal digits.
Digit(d) == <<"0", "1", "2", "3", "4", "5", "6", "7", "8", "9">>[d + 1]

RECURSIVE Str(_)
Str(n) == IF n < 10 THEN <<Digit(n)>> ELSE Str(n \div 10) \o <<Digit(n % 10)>>

\* sep.join(parts)
RECURSIVE Join(_, _)
Join(sep, parts) ==
    IF parts = <<>> THEN <<>>
    ELSE IF Len(parts) = 1 THEN parts[1]
    ELSE parts[1] \o sep \o Join(sep, Tail(parts))

\* s.split(". "): the pieces of s between the non-overlapping occurrences of
\* "." followed by " ", scanning from the left.  cur is the piece being read.
RECURSIVE SplitFrom(_, _, _)
SplitFrom(s, i, cur) ==
    IF i > Len(s) THEN <<cur>>
    ELSE IF s[i] = "." /\ i + 1 <= Len(s) /\ s[i + 1] = " "
         THEN <<cur>> \o SplitFrom(s, i + 2, <<>>)
         ELSE SplitFrom(s, i + 1, Append(cur, s[i]))

split_dot_space(s) == SplitFrom(s, 1, <<>>)

(***************************************************************************)
(* Evidence text: "\n\n".join(f"Source: ...\nTitle: ...\nContent: ...")    *)
(* draftagent.py 159-164 and 351-356.  A search result is a record whose   *)
(* url is NoKey when the provider's result has no "url" key.               *)
(***************************************************************************)
NoKey == <<"<no key>">>

get(result, key, default) == IF result[key] = NoKey THEN default ELSE result[key]

format_result(result) ==
    <<"Source: ">> \o get(result, "url", <<"Unknown">>) \o <<"\n">> \o
    <<"Title: ">> \o get(result, "title", <<"No title">>) \o <<"\n">> \o
    <<"Content: ">> \o get(result, "content", <<"No content">>)

format_results(search_results) ==
    Join(<<"\n", "\n">>,
         [k \in 1..Len(search_results) |-> format_result(search_results[k])])

(***************************************************************************)
(* extract_references, draftagent.py 211-219.                              *)
(***************************************************************************)
\* The last index of the run of non-newline tokens that starts at i.
RECURSIVE LineEnd(_, _)
LineEnd(s, i) ==
    IF i + 1 <= Len(s) /\ s[i + 1] # "\n" THEN LineEnd(s, i + 1) ELSE i

\* re.findall(r"Source: (https?://[^\n]+)", s) from position i on: a match needs
\* the literal, a scheme and at least one more token that is not a newline; the
\* group runs to the end of the line and the scan resumes after it.
RECURSIVE FindSources(_, _)
FindSources(s, i) ==
    IF i > Len(s) THEN <<>>
    ELSE IF /\ s[i] = "Source: "
            /\ i + 2 <= Len(s)
            /\ s[i + 1] \in {"http://", "https://"}
            /\ s[i + 2] # "\n"
         THEN LET e == LineEnd(s, i + 2)
              IN  <<SubSeq(s, i + 1, e)>> \o FindSources(s, e + 1)
         ELSE FindSources(s, i + 1)

re_findall_sources(s) == FindSources(s, 1)

\* [ref.split(". ")[1] for ref in references]
ref_urls(references) ==
    {split_dot_space(references[k])[2] : k \in 1..Len(references)}

\* A numbering that forgets the "+ 1" of line 218.
format_reference_zero_based(references, source) ==
    Str(Len(references)) \o <<".", " ">> \o source

\* f"{len(references) + 1}. {source}"
format_reference(references, source) ==
    Str(Len(references) + 1) \o <<".", " ">> \o source

\* The inner loop, lines 216-218, over the sources of one record.
RECURSIVE add_sources(_, _)
add_sources(references, sources) ==
    IF sources = <<>> THEN references
    ELSE LET source == Head(sources)
         IN  add_sources(
                 IF source \notin ref_urls(references)
                 THEN Append(references, format_reference(references, source))
                 ELSE references,
                 Tail(sources))

\* The outer loop, lines 213-215, from record i on.
RECURSIVE extract_from(_, _, _)
extract_from(verification_results, i, references) ==
    IF i > Len(verification_results) THEN references
    ELSE extract_from(
             verification_results, i + 1,
             add_sources(references,
                 re_findall_sources(verification_results[i].verification_data)))

extract_references(verification_results) ==
    extract_from(verification_results, 1, <<>>)

(***************************************************************************)
(* The think-tag removal of create_draft_content, draftagent.py 435:       *)
(* re.sub(r'<think>.*?</think>', '', draft_content, flags=re.DOTALL).      *)
(* "<think>" is the token "<think>" or "<th" followed by "ink>";           *)
(* "</think>" is the token "</think>".                                     *)
(***************************************************************************)
\* The number of tokens of the opening tag at i, 0 when none starts there.
OpenLen(s, i) ==
    IF i > Len(s) THEN 0
    ELSE IF s[i] = "<think>" THEN 1
    ELSE IF s[i] = "<th" /\ i + 1 <= Len(s) /\ s[i + 1] = "ink>" THEN 2
    ELSE 0

\* The positions of a closing tag at or after i.
ClosesFrom(s, i) == {j \in i..Len(s) : s[j] = "</think>"}

\* One left-to-right pass: at an opening tag that has a closing tag after it,
\* drop everything up to the nearest one (non-greedy) and go on after it.
RECURSIVE SubFrom(_, _)
SubFrom(s, i) ==
    IF i > Len(s) THEN <<>>
    ELSE IF OpenLen(s, i) > 0 /\ ClosesFrom(s, i + OpenLen(s, i)) # {}
         THEN SubFrom(s, Min(ClosesFrom(s, i + OpenLen(s, i))) + 1)
         ELSE <<s[i]>> \o SubFrom(s, i + 1)

re_sub_think(draft_content) == SubFrom(draft_content, 1)

(***************************************************************************)
(* The collaborators.  A call to a model or to the search provider returns *)
(* or raises; what it answers is the environment's choice (an "answer").   *)
(* A stage is an operator from the workflow state and the answers of the   *)
(* calls it makes to its outcome: the partial update it returns, or the    *)
(* message of the exception it raises, and the calls it made.              *)
(***************************************************************************)
Returns(update, calls) ==
    [raised |-> FALSE, exc |-> <<>>, update |-> update, calls |-> calls]

Raises(msg, calls) ==
    [raised |-> TRUE, exc |-> msg, update |-> <<>>, calls |-> calls]

\* One call of a collaborator: the node that made it, the collaborator, the
\* texts passed and the answer that came back.
Call(node, to, input, answer) ==
    [node |-> node, to |-> to, input |-> input, answer |-> answer]

\* str(e) of the exceptions the model distinguishes.
ModelDown == <<"model unavailable">>
SearchDown == <<"search unavailable">>
NotJson == <<"Invalid json output">>
NoGetAttribute == <<"object has no attribute 'get'">>
NoItemAssignment == <<"object does not support item assignment">>

\* Answers of a text model (chain ending in StrOutputParser).
TextAnswer(t) == [raised |-> FALSE, text |-> t]
TextRaise == [raised |-> TRUE, text |-> ModelDown]

\* Answers of the search provider: a list of result dicts, a string (the
\* provider's error text), some other value, or an exception.
SearchList(hits) == [kind |-> "list", hits |-> hits, text |-> <<>>]
SearchString == [kind |-> "str", hits |-> <<>>, text |-> <<"error text">>]
SearchOther == [kind |-> "other", hits |-> <<>>, text |-> <<>>]
SearchRaise == [kind |-> "raise", hits |-> <<>>, text |-> SearchDown]
\* The provider was not called.
SearchNotAsked == [kind |-> "not asked", hits |-> <<>>, text |-> <<>>]

\* Answers of a JSON model (chain ending in JsonOutputParser): a decoded value,
\* or an exception of the model or of the parser.
JsonAnswer(v) == [kind |-> "json", value |-> v, text |-> <<>>]
JsonNotJson == [kind |-> "raise", value |-> <<>>, text |-> NotJson]
JsonRaise == [kind |-> "raise", value |-> <<>>, text |-> ModelDown]
\* The model was not called.
JsonNotAsked == [kind |-> "not asked", value |-> <<>>, text |-> <<>>]

\* Decoded JSON values: a list, a dict (with the keys the code reads; NoKey
\* for a missing one) or anything else.
JList(items) == [kind |-> "list", items |-> items, claim |-> NoKey, importance |-> NoKey]
JDict(claim, importance) ==
    [kind |-> "dict", items |-> <<>>, claim |-> claim, importance |-> importance]
JOther == [kind |-> "other", items |-> <<>>, claim |-> NoKey, importance |-> NoKey]

PyNone == <<"<None>">>

\* d.get(key) of a decoded dict: None for a missing key.
get_or_none(d, key) == IF d[key] = NoKey THEN PyNone ELSE d[key]

\* state merged with a stage's partial update.
Merge(state, update) ==
    [k \in DOMAIN state |-> IF k \in DOMAIN update THEN update[k] ELSE state[k]]

\* A test of pdf_context without the strip().
IsBlank_no_strip(t) == FALSE

\* pdf_context.strip() is empty.
IsBlank(t) == \A k \in 1..Len(t) : t[k] \in {" ", "\n"}

(***************************************************************************)
(* Stage 1: optimize_query, draftagent.py 269-272 (222-239).               *)
(***************************************************************************)
\* A first node that also stores the optimized text under "query".
optimize_query_overwrites_query(state, llm) ==
    LET calls == <<Call("optimize_query", "research_llm", <<state.query>>, llm)>>
    IN  IF llm.raised THEN Raises(llm.text, calls)
        ELSE Returns([query |-> llm.text, optimized_query |-> llm.text], calls)

optimize_query(state, llm) ==
    LET calls == <<Call("optimize_query", "research_llm", <<state.query>>, llm)>>
    IN  IF llm.raised THEN Raises(llm.text, calls)
        ELSE Returns([optimized_query |-> llm.text], calls)

(***************************************************************************)
(* Stage 2: conduct_research, draftagent.py 274-332, and                   *)
(* summarize_search_results, 48-72.                                        *)
(***************************************************************************)
\* Lines 282-289 (and 52-57): anything but a list is coerced.
coerce_results(search) ==
    IF search.kind = "list" THEN search.hits
    ELSE IF search.kind = "str"
         THEN <<[url |-> <<"N/A">>, title |-> <<"Search Result">>,
                 content |-> search.text]>>
         ELSE <<>>

summarize_search_results(query, search_results, llm) ==
    IF llm.raised
    THEN <<"Could not summarize search results due to an error: ">> \o llm.text
    ELSE llm.text

conduct_research(state, search, llm1, llm2) ==
    LET q == state.optimized_query
        c1 == <<Call("conduct_research", "tavily_search", <<q>>, search)>>
        c2 == c1 \o <<Call("conduct_research", "research_llm",
                           <<q, format_results(coerce_results(search))>>, llm1)>>
        research_output ==
            summarize_search_results(q, coerce_results(search), llm1)
        c3 == c2 \o <<Call("conduct_research", "research_llm",
                           <<q, research_output, state.pdf_context>>, llm2)>>
    IN  IF search.kind = "raise"
        THEN Returns([research_output |->
                <<"Research could not be completed due to an error: ">>
                    \o search.text], c1)
        ELSE IF state.pdf_context # <<>> /\ ~IsBlank(state.pdf_context)
        THEN IF llm2.raised
             THEN Returns([research_output |->
                    <<"Research could not be completed due to an error: ">>
                        \o llm2.text], c3)
             ELSE Returns([research_output |-> llm2.text], c3)
        ELSE Returns([research_output |-> research_output], c2)

(***************************************************************************)
(* Stage 3: extract_key_claims, draftagent.py 333-336, and extract_claims, *)
(* 98-127.                                                                 *)
(***************************************************************************)
LowClaim(text) == JDict(text, <<"low">>)

\* extract_claims without its try/except: the model's exception leaves it.
extract_claims_no_except(research_output, llm) ==
    IF llm.kind = "raise" THEN Raises(llm.text, <<>>)
    ELSE IF llm.value.kind = "list" THEN Returns(llm.value.items, <<>>)
    ELSE IF llm.value.kind = "dict" /\ llm.value.claim # NoKey
         THEN Returns(<<llm.value>>, <<>>)
    ELSE Returns(<<LowClaim(<<"No claims could be extracted">>)>>, <<>>)

\* The value extract_claims returns (it has no other outcome).
extract_claims(research_output, llm) ==
    IF llm.kind = "raise"
    THEN Returns(<<LowClaim(<<"Error extracting claims: ">> \o llm.text)>>, <<>>)
    ELSE IF llm.value.kind = "list" THEN Returns(llm.value.items, <<>>)
    ELSE IF llm.value.kind = "dict" /\ llm.value.claim # NoKey
         THEN Returns(<<llm.value>>, <<>>)
    ELSE Returns(<<LowClaim(<<"No claims could be extracted">>)>>, <<>>)

extract_key_claims(state, llm) ==
    LET r == extract_claims(state.research_output, llm)
        calls == <<Call("extract_key_claims", "fact_checker_llm",
                        <<state.research_output>>, llm)>>
    IN  IF r.raised THEN Raises(r.exc, calls)
        ELSE Returns([claims |-> r.update], calls)

(***************************************************************************)
(* Stage 4: verify_claims, draftagent.py 338-369, and verify_claim,        *)
(* 156-209.                                                                *)
(***************************************************************************)
\* A verification dict as the model returns it; verify_claims then sets claim,
\* importance and verification_data.
VDict(accuracy_score, confidence_level, inaccuracies, corrected_claim) ==
    [kind |-> "dict",
     accuracy_score |-> accuracy_score,
     confidence_level |-> confidence_level,
     inaccuracies |-> inaccuracies,
     missing_context |-> <<>>,
     potential_biases |-> <<>>,
     corrected_claim |-> corrected_claim,
     claim |-> NoKey, importance |-> NoKey, verification_data |-> NoKey]

\* A decoded value that is not a dict (a JSON list, string or number).
VNotDict ==
    [kind |-> "other",
     accuracy_score |-> 0, confidence_level |-> 0, inaccuracies |-> <<>>,
     missing_context |-> <<>>, potential_biases |-> <<>>,
     corrected_claim |-> NoKey,
     claim |-> NoKey, importance |-> NoKey, verification_data |-> NoKey]

\* The fallback of lines 202-209.
Fallback(claim, msg) ==
    [VDict(5, 5, <<<<"Could not properly verify: ">> \o msg>>, claim)
        EXCEPT !.missing_context = <<<<"Verification process failed">>>>,
               !.potential_biases =
                   <<<<"Unable to assess due to verification failure">>>>]

\* Iterating the provider's answer and calling .get on each element (lines
\* 159-164 and 351-356) raises unless the answer is a list of dicts.
evidence_raises(search) == search.kind # "list"

evidence_exc(search) ==
    IF search.kind = "raise" THEN search.text ELSE NoGetAttribute

verify_claim(claim, search, llm) ==
    LET c1 == <<Call("verify_claims", "fact_verification_search", <<claim>>,
                     search)>>
        verification_data == format_results(search.hits)
        c2 == c1 \o <<Call("verify_claims", "fact_checker_llm",
                           <<claim, verification_data>>, llm)>>
    IN  IF evidence_raises(search) THEN Raises(evidence_exc(search), c1)
        ELSE IF llm.kind = "raise"
        THEN Returns(Fallback(claim, llm.text), c2)
        ELSE Returns(llm.value, c2)

\* The record appended with the wrong claim text (the corrected claim).
attach_corrected(verification, claim, importance, verification_data) ==
    [verification EXCEPT !.claim = verification.corrected_claim,
                         !.importance = importance,
                         !.verification_data = verification_data]

\* Lines 358-360.
attach(verification, claim, importance, verification_data) ==
    [verification EXCEPT !.claim = claim,
                         !.importance = importance,
                         !.verification_data = verification_data]

\* The loop body, lines 342-361, for one claim item and the answers
\* a = [search1, llm, search2] of its three calls.
verify_item(claim_item, a) ==
    LET claim == get_or_none(claim_item, "claim")
        importance == get_or_none(claim_item, "importance")
        v == verify_claim(claim, a.search1, a.llm)
        c == v.calls \o <<Call("verify_claims", "fact_verification_search",
                               <<claim>>, a.search2)>>
    IN  IF claim_item.kind # "dict" THEN Raises(NoGetAttribute, <<>>)
        ELSE IF v.raised THEN v
        ELSE IF evidence_raises(a.search2) THEN Raises(evidence_exc(a.search2), c)
        ELSE IF v.update.kind # "dict" THEN Raises(NoItemAssignment, c)
        ELSE Returns(attach(v.update, claim, importance,
                            format_results(a.search2.hits)), c)

RECURSIVE verify_loop(_, _, _, _, _)
verify_loop(claims, answers, i, verification_results, calls) ==
    IF i > Len(claims)
    THEN Returns([verification_results |-> verification_results,
                  references |-> extract_references(verification_results)],
                 calls)
    ELSE LET r == verify_item(claims[i], answers[i])
         IN  IF r.raised THEN Raises(r.exc, calls \o r.calls)
             ELSE verify_loop(claims, answers, i + 1,
                              Append(verification_results, r.update),
                              calls \o r.calls)

verify_claims(state, answers) == verify_loop(state.claims, answers, 1, <<>>, <<>>)

(***************************************************************************)
(* Stage 5: generate_fact_check_report, draftagent.py 371-411.             *)
(***************************************************************************)
generate_fact_check_report(state, llm) ==
    LET calls == <<Call("generate_fact_check_report", "fact_checker_llm",
                        <<state.research_output, Join(<<"\n">>, state.references)>>,
                        llm)>>
    IN  IF llm.raised THEN Raises(llm.text, calls)
        ELSE Returns([fact_check_report |-> llm.text], calls)

(***************************************************************************)
(* Stage 6: create_draft_content, draftagent.py 413-440.                   *)
(***************************************************************************)
create_draft_content(state, llm) ==
    LET calls == <<Call("create_draft_content", "research_llm",
                        <<state.optimized_query, state.research_output,
                          state.fact_check_report, state.content_style,
                          Join(<<"\n">>, state.references)>>, llm)>>
    IN  IF llm.raised THEN Raises(llm.text, calls)
        ELSE Returns([draft_content |-> re_sub_think(llm.text),
                      status |-> <<"completed">>], calls)

(***************************************************************************)
(* conduct_research_workflow, draftagent.py 465-510.                       *)
(***************************************************************************)
\* Lines 482-494.
initial_state(query, content_style, pdf_context) ==
    [query |-> query,
     optimized_query |-> <<>>,
     pdf_context |-> pdf_context,
     research_output |-> <<>>,
     claims |-> <<>>,
     verification_results |-> <<>>,
     references |-> <<>>,
     fact_check_report |-> <<>>,
     content_style |-> content_style,
     draft_content |-> <<>>,
     status |-> <<"in_progress">>]

\* An except block that reports the failure without the exception's message.
error_result_without_message(state, msg) ==
    [query |-> state.query,
     optimized_query |-> <<>>,
     research_output |-> <<"Error during research: ">>,
     fact_check_report |->
         <<"Fact-checking could not be performed due to research error.">>,
     content_style |-> state.content_style,
     draft_content |-> <<>>,
     status |-> <<"error">>,
     error |-> <<"research failed">>]

\* Lines 501-510: what the except block returns; the state at the time of the
\* exception is not used beyond the two arguments.
error_result(state, msg) ==
    [query |-> state.query,
     optimized_query |-> <<>>,
     research_output |-> <<"Error during research: ">> \o msg,
     fact_check_report |->
         <<"Fact-checking could not be performed due to research error.">>,
     content_style |-> state.content_style,
     draft_content |-> <<>>,
     status |-> <<"error">>,
     error |-> msg]

StageNames ==
    <<"optimize_query", "conduct_research", "extract_key_claims",
      "verify_claims", "generate_fact_check_report", "create_draft_content">>

\* The outcome of stage n (the graph's n-th node) in `state` under the answers
\* a of the run's collaborator calls.
run_stage(n, state, a) ==
    CASE n = 1 -> optimize_query(state, a.optimize)
      [] n = 2 -> conduct_research(state, a.search, a.summarize, a.merge)
      [] n = 3 -> extract_key_claims(state, a.claims)
      [] n = 4 -> verify_claims(state, a.verify)
      [] n = 5 -> generate_fact_check_report(state, a.report)
      [] n = 6 -> create_draft_content(state, a.draft)

\* workflow.invoke: the stages in the order of the graph's edges, from stage n.
RECURSIVE invoke_from(_, _, _)
invoke_from(n, state, a) ==
    IF n > Len(StageNames) THEN Returns(state, <<>>)
    ELSE LET r == run_stage(n, state, a)
         IN  IF r.raised THEN Raises(r.exc, <<>>)
             ELSE invoke_from(n + 1, Merge(state, r.update), a)

conduct_research_workflow(query, content_style, pdf_context, a) ==
    LET s0 == initial_state(query, content_style, pdf_context)
        r == invoke_from(1, s0, a)
    IN  IF r.raised THEN error_result(s0, r.exc) ELSE r.update

(***************************************************************************)
(* SpecRefs: extract_references on every sequence of at most MaxRecords    *)
(* records whose evidence formats at most MaxHits search results.          *)
(***************************************************************************)
Title == <<"t">>
Content == <<"c">>

Hit(url) == [url |-> url, title |-> Title, content |-> Content]

UrlA == <<"http://", "a">>
UrlADotB == <<"http://", "a", ".", " ", "b">>
UrlB == <<"https://", "b">>

\* A result without a "url" key (its line reads "Source: Unknown") whose
\* content quotes a source line.
HitQuoting ==
    [url |-> NoKey, title |-> Title,
     content |-> <<"see ", "Source: ", "https://", "b">>]

SearchHits == {Hit(UrlA), Hit(UrlADotB), HitQuoting}

Evidence == {format_results(h) : h \in SeqUpTo(SearchHits, MaxHits)}

RefRecords == {[verification_data |-> e] : e \in Evidence}

\* The variables of the specifications that are not running.
FnIdle == arg = <<>> /\ ret = NotCalled

WfIdle ==
    /\ wpc = "idle"
    /\ wstate = <<>>
    /\ exc = <<>>
    /\ raised_in = ""
    /\ wresult = NoResult
    /\ log = <<>>

\* The research ids: uuid4 values, here numbered in the order of creation.
Ids == 1..MaxJobs

\* No get_research_results request is under way.
PollIdle == [at |-> "idle", research_id |-> 0]

JobsIdle ==
    /\ research_results = <<>>
    /\ next_id = 1
    /\ pc = [j \in Ids |-> "unborn"]
    /\ locals = [j \in Ids |-> <<>>]
    /\ now = 0
    /\ to_delete = <<>>
    /\ poll = PollIdle

InitRefs ==
    /\ \E n \in 0..MaxRecords : arg \in [1..n -> RefRecords]
    /\ ret = NotCalled
    /\ WfIdle
    /\ JobsIdle

CallExtractReferences ==
    /\ ret = NotCalled
    /\ ret' = extract_references(arg)
    /\ UNCHANGED <<arg, wfVars, jobVars, pollVars>>

NextRefs == CallExtractReferences

SpecRefs == InitRefs /\ [][NextRefs]_vars

(***************************************************************************)
(* SpecStrip: the think-tag removal on every raw draft of at most          *)
(* MaxDraftLen tokens.                                                     *)
(***************************************************************************)
DraftTokens == {"<think>", "</think>", "<th", "ink>", "x"}

InitStrip ==
    /\ arg \in SeqUpTo(DraftTokens, MaxDraftLen)
    /\ ret = NotCalled
    /\ WfIdle
    /\ JobsIdle

CallStrip ==
    /\ ret = NotCalled
    /\ ret' = re_sub_think(arg)
    /\ UNCHANGED <<arg, wfVars, jobVars, pollVars>>

NextStrip == CallStrip

SpecStrip == InitStrip /\ [][NextStrip]_vars

(***************************************************************************)
(* SpecWorkflow: one call of conduct_research_workflow, node by node,      *)
(* under every answer of the collaborators.                                *)
(***************************************************************************)
Queries == {<<"query">>}
ContentStyles == {<<"detailed report">>}
PdfContexts == {<<>>, <<" ">>, <<"context">>}

OptimizeAnswers == {TextAnswer(<<"optimized">>), TextRaise}
ResearchSearchAnswers ==
    {SearchList(<<Hit(UrlA)>>), SearchString, SearchOther, SearchRaise}
SummarizeAnswers == {TextAnswer(<<"summary">>), TextRaise}
MergeAnswers == {TextAnswer(<<"merged">>), TextRaise}

ClaimA == JDict(<<"claim A">>, <<"high">>)
ClaimB == JDict(<<"claim B">>, <<"medium">>)
ClaimNoText == JDict(NoKey, <<"low">>)
ClaimItems == {ClaimA, ClaimB, JOther}
\* What the model's JSON decodes to: a list of at most MaxClaims items, a
\* list of one claim object without a claim key, a single object with or
\* without that key, or something else.
DecodedClaims ==
    {JList(items) : items \in SeqUpTo(ClaimItems, MaxClaims)}
        \cup {JList(<<ClaimNoText>>), ClaimA, ClaimNoText, JOther}
ClaimsAnswers == {JsonAnswer(v) : v \in DecodedClaims} \cup {JsonNotJson, JsonRaise}

\* The provider is asked twice per claim (lines 157 and 350) and may answer
\* the second call differently.
FirstSearchAnswers == {SearchList(<<Hit(UrlA)>>), SearchString, SearchRaise}
SecondSearchAnswers ==
    {SearchList(<<Hit(UrlA)>>), SearchList(<<Hit(UrlB)>>), SearchString, SearchRaise}
Verdict == VDict(8, 7, <<>>, <<"corrected claim">>)
VerifyModelAnswers ==
    {JsonAnswer(Verdict), JsonAnswer(VNotDict), JsonNotJson, JsonRaise}

\* The answers to the three calls of one loop pass (lines 157, 197, 350) for
\* claim_item; a collaborator the pass does not reach gives none.
ItemAnswers(claim_item) ==
    IF claim_item.kind # "dict"
    THEN {[search1 |-> SearchNotAsked, llm |-> JsonNotAsked,
           search2 |-> SearchNotAsked]}
    ELSE {[search1 |-> s, llm |-> JsonNotAsked, search2 |-> SearchNotAsked] :
             s \in {x \in FirstSearchAnswers : evidence_raises(x)}}
         \cup [search1 : {x \in FirstSearchAnswers : ~evidence_raises(x)},
               llm : VerifyModelAnswers,
               search2 : SecondSearchAnswers]

\* The answers to the passes of the loop over claims from item i on: the loop
\* ends with the first pass that raises.
RECURSIVE VerifyAnswers(_, _)
VerifyAnswers(claims, i) ==
    IF i > Len(claims) THEN {<<>>}
    ELSE UNION {IF verify_item(claims[i], a).raised
                THEN {<<a>>}
                ELSE {<<a>> \o rest : rest \in VerifyAnswers(claims, i + 1)} :
                a \in ItemAnswers(claims[i])}

ReportAnswers == {TextAnswer(<<"report">>), TextRaise}
DraftAnswers ==
    {TextAnswer(<<"draft">>),
     TextAnswer(<<"<think>", "x", "</think>", "draft">>),
     TextRaise}

InitWorkflow ==
    /\ FnIdle
    /\ JobsIdle
    /\ wpc = "optimize_query"
    /\ \E q \in Queries, cs \in ContentStyles, ctx \in PdfContexts :
           wstate = initial_state(q, cs, ctx)
    /\ exc = <<>>
    /\ raised_in = ""
    /\ wresult = NoResult
    /\ log = <<>>

\* A graph that goes on to the next node after a node raised.
NodeDone_no_short_circuit(r, next) ==
    /\ log' = log \o r.calls
    /\ wpc' = next
    /\ IF r.raised
       THEN /\ exc' = r.exc
            /\ raised_in' = wpc
            /\ UNCHANGED wstate
       ELSE /\ wstate' = Merge(wstate, r.update)
            /\ UNCHANGED <<exc, raised_in>>
    /\ UNCHANGED <<wresult, fnVars, jobVars, pollVars>>

\* A node ran with outcome r: its update is merged and the graph moves to the
\* next node, or its exception leaves workflow.invoke (line 496).
NodeDone(r, next) ==
    /\ log' = log \o r.calls
    /\ IF r.raised
       THEN /\ wpc' = "except"
            /\ exc' = r.exc
            /\ raised_in' = wpc
            /\ UNCHANGED wstate
       ELSE /\ wpc' = next
            /\ wstate' = Merge(wstate, r.update)
            /\ UNCHANGED <<exc, raised_in>>
    /\ UNCHANGED <<wresult, fnVars, jobVars, pollVars>>

OptimizeQuery ==
    /\ wpc = "optimize_query"
    /\ \E llm \in OptimizeAnswers :
           NodeDone(optimize_query(wstate, llm), "conduct_research")

ConductResearch ==
    /\ wpc = "conduct_research"
    /\ \E search \in ResearchSearchAnswers, llm1 \in SummarizeAnswers,
          llm2 \in MergeAnswers :
           NodeDone(conduct_research(wstate, search, llm1, llm2),
                    "extract_key_claims")

ExtractKeyClaims ==
    /\ wpc = "extract_key_claims"
    /\ \E llm \in ClaimsAnswers :
           NodeDone(extract_key_claims(wstate, llm), "verify_claims")

VerifyClaims ==
    /\ wpc = "verify_claims"
    /\ \E answers \in VerifyAnswers(wstate.claims, 1) :
           NodeDone(verify_claims(wstate, answers), "generate_fact_check_report")

GenerateFactCheckReport ==
    /\ wpc = "generate_fact_check_report"
    /\ \E llm \in ReportAnswers :
           NodeDone(generate_fact_check_report(wstate, llm),
                    "create_draft_content")

CreateDraftContent ==
    /\ wpc = "create_draft_content"
    /\ \E llm \in DraftAnswers :
           NodeDone(create_draft_content(wstate, llm), "end")

\* Line 498: the graph reached END.
WorkflowReturn ==
    /\ wpc = "end"
    /\ wresult' = wstate
    /\ wpc' = "returned"
    /\ UNCHANGED <<wstate, exc, raised_in, log, fnVars, jobVars, pollVars>>

\* Lines 499-510.
WorkflowExcept ==
    /\ wpc = "except"
    /\ wresult' = error_result(wstate, exc)
    /\ wpc' = "returned"
    /\ UNCHANGED <<wstate, exc, raised_in, log, fnVars, jobVars, pollVars>>

NextWorkflow ==
    \/ OptimizeQuery
    \/ ConductResearch
    \/ ExtractKeyClaims
    \/ VerifyClaims
    \/ GenerateFactCheckReport
    \/ CreateDraftContent
    \/ WorkflowReturn
    \/ WorkflowExcept

SpecWorkflow == InitWorkflow /\ [][NextWorkflow]_vars

(***************************************************************************)
(* Spec: the job table of app.py.  Submissions (start_research), one       *)
(* background thread per accepted submission                               *)
(* (process_research_in_background), the reaper thread                     *)
(* (cleanup_old_research) and the clock.  A thread's call of               *)
(* conduct_research_workflow touches nothing but its own locals and is one *)
(* step; every write to the table is a step of its own.  Reads of the      *)
(* table (get_research_results) are operators of the state.                *)
(***************************************************************************)
\* datetime.now().isoformat() and datetime.fromisoformat, on the day count.
isoformat(t) == Str(t)
fromisoformat(text) == CHOOSE t \in 0..(MaxTime + 1) : Str(t) = text

\* timedelta(hours=24), in days (line 1479).
RetentionDays == 1

\* The rows of the pdf_documents table (uploads are not modelled).
pdf_documents == {"pdf-1"}

\* draftagent.py 242-244.
select_content_style(style_number) ==
    CASE style_number = 1 -> <<"blog post">>
      [] style_number = 2 -> <<"detailed report">>
      [] style_number = 3 -> <<"executive summary">>
      [] OTHER -> <<"blog post">>

\* int(style_number) of the JSON value (line 215).  A value is written as its
\* text: a whole number "2" (the number or a string of its digits), a number
\* with a fraction "2.5", or a string that is no number.  int() returns for
\* the first two, truncating the fraction, and raises ValueError for the
\* third; for null (PyNone) it raises TypeError, which line 218 does not catch.
IsInt(text) ==
    \E n \in 0..9, f \in 0..9 :
        text = Str(n) \/ text = Str(n) \o <<".">> \o Str(f)
int(text) ==
    CHOOSE n \in 0..9 : \E f \in 0..9 :
        text = Str(n) \/ text = Str(n) \o <<".">> \o Str(f)

\* The record of lines 251-264; the keys written later are NoKey until then.
new_record(query, content_style, pdf_ids, t) ==
    [query |-> query,
     content_style |-> content_style,
     status |-> <<"queued">>,
     created_at |-> isoformat(t),
     optimized_query |-> <<>>,
     research_output |-> <<>>,
     claims |-> <<>>,
     verification_results |-> <<>>,
     references |-> <<>>,
     fact_check_report |-> <<>>,
     draft_content |-> <<>>,
     pdf_ids |-> pdf_ids,
     processing_started |-> NoKey,
     pdf_context |-> NoKey,
     completed_at |-> NoKey,
     error |-> NoKey,
     error_at |-> NoKey]

\* The answers the collaborators give a job's run.
RunAnswers ==
    [optimize : OptimizeAnswers,
     search : {SearchList(<<Hit(UrlA)>>)},
     summarize : {TextAnswer(<<"summary">>)},
     merge : {TextAnswer(<<"merged">>)},
     claims : {JsonAnswer(JList(<<ClaimA, ClaimB>>))},
     verify : [1..2 -> {[search1 |-> SearchList(<<Hit(UrlA)>>),
                         llm |-> JsonAnswer(Verdict),
                         search2 |-> SearchList(<<Hit(UrlA)>>)],
                        [search1 |-> SearchRaise,
                         llm |-> JsonAnswer(Verdict),
                         search2 |-> SearchList(<<Hit(UrlA)>>)]}],
     report : ReportAnswers,
     draft : {TextAnswer(<<"<think>", "x", "</think>", "draft">>), TextRaise}]

\* A handler that runs the pipeline itself before it starts the thread.
new_locals_pipeline_in_handler(query, content_style, pdf_ids) ==
    [query |-> query, content_style |-> content_style, pdf_ids |-> pdf_ids,
     pdf_context |-> <<>>,
     result |-> conduct_research_workflow(query, content_style, <<>>,
                    CHOOSE a \in RunAnswers : TRUE),
     e |-> <<>>]

\* The thread's arguments (line 269) and locals.
new_locals(query, content_style, pdf_ids) ==
    [query |-> query, content_style |-> content_style, pdf_ids |-> pdf_ids,
     pdf_context |-> <<>>, result |-> NoResult, e |-> <<>>]

\* The request bodies tried, query and style as the JSON gives them: three
\* that pass the validation, one per style, and one for each way to fail it.
Request(query, style, pdf_ids) ==
    [query |-> query, style |-> style, pdf_ids |-> pdf_ids]

Requests ==
    {Request(<<"query">>, NoKey, <<>>),
     Request(<<"query">>, <<"2">>, <<"pdf-1">>),
     Request(<<"query">>, <<"3">>, <<>>),
     Request(NoKey, <<"1">>, <<>>),
     Request(<<>>, <<"1">>, <<>>),
     Request(<<"query">>, <<"4">>, <<>>),
     Request(<<"query">>, <<"0">>, <<>>),
     Request(<<"query">>, <<"x">>, <<>>),
     Request(<<"query">>, <<"3", ".", "5">>, <<>>),
     Request(<<"query">>, <<"0", ".", "5">>, <<>>),
     Request(<<"query">>, PyNone, <<>>),
     Request(<<"query">>, <<"1">>, <<"pdf-9">>),
     Request(<<"query">>, <<"1">>, <<"pdf-1", "pdf-9">>)}

\* Lines 207-243: the status code the validation ends with (500 for the
\* exception it does not catch), 200 if it passes.
validate(data) ==
    LET style_number == IF data.style = NoKey THEN <<"1">> ELSE data.style
    IN  IF data.query = NoKey \/ data.query = <<>> THEN 400
        ELSE IF style_number = PyNone THEN 500
        ELSE IF ~IsInt(style_number) THEN 400
        ELSE IF int(style_number) \notin {1, 2, 3} THEN 400
        ELSE IF \E k \in 1..Len(data.pdf_ids) : data.pdf_ids[k] \notin pdf_documents
             THEN 400
        ELSE 200

\* Lines 274-282: the response to an accepted submission.
start_research_response(research_id, data) ==
    [code |-> 200,
     status |-> <<"success">>,
     research_id |-> research_id,
     research_status |-> <<"queued">>,
     created_at |-> research_results[research_id].created_at,
     pdf_count |-> Len(data.pdf_ids)]

\* A start_research that stores the record and never starts the thread
\* (no thread.start()).
StartResearch_no_thread(data) ==
    /\ next_id <= MaxJobs
    /\ IF validate(data) # 200
       THEN UNCHANGED <<research_results, next_id, pc, locals>>
       ELSE /\ research_results' =
                   [j \in DOMAIN research_results \cup {next_id} |->
                       IF j = next_id
                       THEN new_record(data.query, <<"blog post">>,
                                       data.pdf_ids, now)
                       ELSE research_results[j]]
            /\ next_id' = next_id + 1
            /\ UNCHANGED <<pc, locals>>
    /\ UNCHANGED <<now, to_delete, fnVars, wfVars, pollVars>>

\* start_research, lines 192-282.
StartResearch(data) ==
    /\ next_id <= MaxJobs
    /\ IF validate(data) # 200
       THEN UNCHANGED <<research_results, next_id, pc, locals>>
       ELSE LET research_id == next_id
                content_style ==
                    select_content_style(
                        int(IF data.style = NoKey THEN <<"1">> ELSE data.style))
            IN  /\ research_results' =
                       [j \in DOMAIN research_results \cup {research_id} |->
                           IF j = research_id
                           THEN new_record(data.query, content_style,
                                           data.pdf_ids, now)
                           ELSE research_results[j]]
                /\ next_id' = next_id + 1
                /\ pc' = [pc EXCEPT ![research_id] = "l138"]
                /\ locals' = [locals EXCEPT ![research_id] =
                       new_locals(data.query, content_style, data.pdf_ids)]
    /\ UNCHANGED <<now, to_delete, fnVars, wfVars, pollVars>>

\* A thread that writes through a table-wide "latest id" instead of its own
\* research_id.
SetKey_latest_id(j, line, key, value, next) ==
    /\ pc[j] = line
    /\ research_results' =
           [i \in DOMAIN research_results |->
               IF i = next_id - 1
               THEN [research_results[i] EXCEPT ![key] = value]
               ELSE research_results[i]]
    /\ pc' = [pc EXCEPT ![j] = next]
    /\ UNCHANGED <<locals, next_id, now, to_delete, fnVars, wfVars, pollVars>>

\* research_results[research_id][key] = value at `line` of the thread; the
\* lookup raises KeyError when the id is gone, which the try block hands to
\* line 187 and which ends the thread when it happens in the handler itself.
SetKey(j, line, key, value, next) ==
    /\ pc[j] = line
    /\ IF j \in DOMAIN research_results
       THEN /\ research_results' =
                   [research_results EXCEPT ![j] = [@ EXCEPT ![key] = value]]
            /\ pc' = [pc EXCEPT ![j] = next]
            /\ UNCHANGED locals
       ELSE /\ pc' = [pc EXCEPT ![j] =
                   IF line \in {"l138", "l139", "l179", "l180"}
                   THEN "l187" ELSE "dead"]
            /\ locals' = [locals EXCEPT ![j].e = <<"KeyError">>]
            /\ UNCHANGED research_results
    /\ UNCHANGED <<next_id, now, to_delete, fnVars, wfVars, pollVars>>

Line138(j) == SetKey(j, "l138", "status", <<"processing">>, "l139")
Line139(j) == SetKey(j, "l139", "processing_started", isoformat(now), "l141")

\* Answers of the retrieval pipeline: get_rag_pipeline() of line 144 (or
\* get_db_connection() of line 147, also before the try of line 150)
\* raises, or get_relevant_context returns a text or raises.
RagAnswers ==
    {[pipeline |-> "raise", context |-> <<"no pipeline">>],
     [pipeline |-> "ok", context |-> <<>>],
     [pipeline |-> "ok", context |-> <<"context">>],
     [pipeline |-> "ok", context |-> NoKey]}

\* Lines 141-172 in a task without the except block of line 185: an
\* exception of get_rag_pipeline ends the thread.
GetPdfContext_uncaught(j) ==
    /\ pc[j] = "l141"
    /\ IF locals[j].pdf_ids = <<>>
       THEN /\ pc' = [pc EXCEPT ![j] = "l175"]
            /\ UNCHANGED locals
       ELSE \E rag \in RagAnswers :
               IF rag.pipeline = "raise"
               THEN /\ pc' = [pc EXCEPT ![j] = "dead"]
                    /\ locals' = [locals EXCEPT ![j].e = rag.context]
               ELSE /\ pc' = [pc EXCEPT ![j] = "l175"]
                    /\ locals' = [locals EXCEPT ![j].pdf_context =
                           IF rag.context = NoKey THEN <<>> ELSE rag.context]
    /\ UNCHANGED <<research_results, next_id, now, to_delete, fnVars,
                   wfVars, pollVars>>

\* Lines 141-172.
GetPdfContext(j) ==
    /\ pc[j] = "l141"
    /\ IF locals[j].pdf_ids = <<>>
       THEN /\ pc' = [pc EXCEPT ![j] = "l175"]
            /\ UNCHANGED locals
       ELSE \E rag \in RagAnswers :
               IF rag.pipeline = "raise"
               THEN /\ pc' = [pc EXCEPT ![j] = "l187"]
                    /\ locals' = [locals EXCEPT ![j].e = rag.context]
               ELSE /\ pc' = [pc EXCEPT ![j] = "l175"]
                    /\ locals' = [locals EXCEPT ![j].pdf_context =
                           IF rag.context = NoKey THEN <<>> ELSE rag.context]
    /\ UNCHANGED <<research_results, next_id, now, to_delete, fnVars,
                   wfVars, pollVars>>

\* The arguments a thread can pass at line 175.
RunInputs ==
    [query : {<<"query">>},
     content_style : {select_content_style(n) : n \in {1, 2, 3}},
     pdf_context : {<<>>, <<"context">>}]

\* What conduct_research_workflow returns for each of them, under each
\* choice of the collaborators' answers.
RunResults ==
    {[in |-> in,
      result |-> conduct_research_workflow(in.query, in.content_style,
                                           in.pdf_context, a)] :
        in \in RunInputs, a \in RunAnswers}

\* Line 175.
ConductResearchWorkflow(j) ==
    /\ pc[j] = "l175"
    /\ \E run \in RunResults :
           /\ run.in = [query |-> locals[j].query,
                        content_style |-> locals[j].content_style,
                        pdf_context |-> locals[j].pdf_context]
           /\ locals' = [locals EXCEPT ![j].result = run.result]
    /\ pc' = [pc EXCEPT ![j] = "l178"]
    /\ UNCHANGED <<research_results, next_id, now, to_delete, fnVars,
                   wfVars, pollVars>>

\* record.update(result): the keys of result overwrite the record's.
update(record, result) ==
    [k \in DOMAIN record |-> IF k \in DOMAIN result THEN result[k] ELSE record[k]]

\* Line 178.
Line178(j) ==
    /\ pc[j] = "l178"
    /\ IF j \in DOMAIN research_results
       THEN /\ research_results' = [research_results EXCEPT
                   ![j] = update(@, locals[j].result)]
            /\ pc' = [pc EXCEPT ![j] = "l179"]
            /\ UNCHANGED locals
       ELSE /\ pc' = [pc EXCEPT ![j] = "l187"]
            /\ locals' = [locals EXCEPT ![j].e = <<"KeyError">>]
            /\ UNCHANGED research_results
    /\ UNCHANGED <<next_id, now, to_delete, fnVars, wfVars, pollVars>>

Line179(j) == SetKey(j, "l179", "status", <<"completed">>, "l180")
Line180(j) == SetKey(j, "l180", "completed_at", isoformat(now), "done")

\* The except block, lines 185-189.
Line187(j) == SetKey(j, "l187", "status", <<"error">>, "l188")
Line188(j) == SetKey(j, "l188", "error", locals[j].e, "l189")
Line189(j) == SetKey(j, "l189", "error_at", isoformat(now), "done")

\* A reaper that looks at the status only, not at the timestamps.
expired_status_only(data) ==
    data.status \in {<<"completed">>, <<"error">>}

\* cleanup_old_research, lines 1468-1480: one pass over the table.
expired(data) ==
    /\ data.status \in {<<"completed">>, <<"error">>}
    /\ LET completed_at ==
               IF data.completed_at # NoKey THEN data.completed_at
               ELSE data.error_at
       IN  /\ completed_at # NoKey
           /\ now - fromisoformat(completed_at) > RetentionDays

RECURSIVE scan(_)
scan(j) ==
    IF j > MaxJobs THEN <<>>
    ELSE (IF j \in DOMAIN research_results /\ expired(research_results[j])
          THEN <<j>> ELSE <<>>) \o scan(j + 1)

ReaperScan ==
    /\ to_delete = <<>>
    /\ to_delete' = scan(1)
    /\ UNCHANGED <<research_results, next_id, pc, locals, now, fnVars,
                   wfVars, pollVars>>

\* Lines 1483-1485: del research_results[research_id].
ReaperDelete ==
    /\ to_delete # <<>>
    /\ research_results' =
           [j \in DOMAIN research_results \ {Head(to_delete)} |->
               research_results[j]]
    /\ to_delete' = Tail(to_delete)
    /\ UNCHANGED <<next_id, pc, locals, now, fnVars, wfVars, pollVars>>

Tick ==
    /\ now < MaxTime
    /\ now' = now + 1
    /\ UNCHANGED <<research_results, next_id, pc, locals, to_delete,
                   fnVars, wfVars, pollVars>>

\* A handler without the branch of lines 296-306: the full response whatever
\* the status.
get_research_results_no_progress_branch(research_id) ==
    IF research_id \notin DOMAIN research_results
    THEN [code |-> 404, error |-> <<"Research ID not found">>]
    ELSE LET result == research_results[research_id]
         IN  [code |-> 200,
              research_id |-> research_id,
              status |-> result.status,
              created_at |-> get(result, "created_at", <<>>),
              completed_at |-> get(result, "completed_at", <<>>),
              query_original |-> get(result, "query", <<>>),
              query_optimized |-> get(result, "optimized_query", <<>>),
              research_output |-> get(result, "research_output", <<>>),
              fact_check_report |-> get(result, "fact_check_report", <<>>),
              verification_results |-> result.verification_results,
              content_style |-> get(result, "content_style", <<>>),
              draft |-> get(result, "draft_content", <<>>),
              references |-> result.references,
              pdf_ids |-> result.pdf_ids]

\* get_research_results, lines 284-345: the response to a poll of
\* research_id in the current state of the table.
get_research_results(research_id) ==
    IF research_id \notin DOMAIN research_results
    THEN [code |-> 404, error |-> <<"Research ID not found">>]
    ELSE LET result == research_results[research_id]
             status == result.status
         IN  IF status \in {<<"queued">>, <<"processing">>}
             THEN [code |-> 200,
                   research_id |-> research_id,
                   status |-> status,
                   message |-> <<"Research is still in progress">>,
                   created_at |-> get(result, "created_at", <<>>),
                   processing_started |-> get(result, "processing_started", <<>>),
                   query |-> get(result, "query", <<>>),
                   content_style |-> get(result, "content_style", <<>>),
                   pdf_ids |-> result.pdf_ids]
             ELSE IF status = <<"error">>
             THEN [code |-> 200,
                   research_id |-> research_id,
                   status |-> <<"error">>,
                   message |-> <<"An error occurred during research">>,
                   error |-> get(result, "error", <<"Unknown error">>),
                   created_at |-> get(result, "created_at", <<>>),
                   error_at |-> get(result, "error_at", <<>>),
                   query |-> get(result, "query", <<>>),
                   content_style |-> get(result, "content_style", <<>>),
                   pdf_ids |-> result.pdf_ids]
             ELSE [code |-> 200,
                   research_id |-> research_id,
                   status |-> status,
                   created_at |-> get(result, "created_at", <<>>),
                   completed_at |-> get(result, "completed_at", <<>>),
                   query_original |-> get(result, "query", <<>>),
                   query_optimized |-> get(result, "optimized_query", <<>>),
                   research_output |-> get(result, "research_output", <<>>),
                   fact_check_report |-> get(result, "fact_check_report", <<>>),
                   verification_results |-> result.verification_results,
                   content_style |-> get(result, "content_style", <<>>),
                   draft |-> get(result, "draft_content", <<>>),
                   references |-> result.references,
                   pdf_ids |-> result.pdf_ids]

Init == FnIdle /\ WfIdle /\ JobsIdle

Next ==
    \/ \E data \in Requests : StartResearch(data)
    \/ \E j \in Ids :
        \/ Line138(j)
        \/ Line139(j)
        \/ GetPdfContext(j)
        \/ ConductResearchWorkflow(j)
        \/ Line178(j)
        \/ Line179(j)
        \/ Line180(j)
        \/ Line187(j)
        \/ Line188(j)
        \/ Line189(j)
    \/ ReaperScan
    \/ ReaperDelete
    \/ Tick

Spec == Init /\ [][Next]_vars

\* The steps of the background thread of research_id j.
Thread(j) ==
    \/ Line138(j)
    \/ Line139(j)
    \/ GetPdfContext(j)
    \/ ConductResearchWorkflow(j)
    \/ Line178(j)
    \/ Line179(j)
    \/ Line180(j)
    \/ Line187(j)
    \/ Line188(j)
    \/ Line189(j)

\* The job table under a scheduler that lets every started thread run
\* (threading.Thread.start, line 272) and with collaborators that answer
\* every call.
\* The submissions of FairSpec: one that is accepted, with a document, and
\* one that is not.
FairRequests ==
    {Request(<<"query">>, <<"2">>, <<"pdf-1">>), Request(NoKey, <<"1">>, <<>>)}

NextFair ==
    \/ \E data \in FairRequests : StartResearch(data)
    \/ \E j \in Ids : Thread(j)
    \/ ReaperScan
    \/ ReaperDelete
    \/ Tick

FairSpec == Init /\ [][NextFair]_vars /\ \A j \in Ids : WF_vars(Thread(j))

(***************************************************************************)
(* SpecPoll: the job table with a get_research_results request running     *)
(* beside the threads.  The handler looks the id up twice: the membership  *)
(* test of line 289 and the subscript of line 292; between the two the     *)
(* reaper may run.                                                         *)
(***************************************************************************)
\* The submissions of SpecPoll: one that is accepted and one that is not.
PollRequests ==
    {Request(<<"query">>, <<"2">>, <<"pdf-1">>), Request(NoKey, <<"1">>, <<>>)}

\* Line 289-290: the id is not in the table, the request ends with 404;
\* otherwise it goes on to line 292.
PollLine289(research_id) ==
    /\ poll.at = "idle"
    /\ poll' = IF research_id \in DOMAIN research_results
               THEN [at |-> "l292", research_id |-> research_id]
               ELSE PollIdle
    /\ UNCHANGED <<fnVars, wfVars, jobVars>>

\* What the request at line 292 answers: the response built from the record,
\* or the KeyError of research_results[research_id], which nothing catches
\* (status 500).
Line292Response(research_id) ==
    IF research_id \in DOMAIN research_results
    THEN get_research_results(research_id)
    ELSE [code |-> 500, error |-> <<"KeyError">>]

\* Lines 292-345.
PollLine292 ==
    /\ poll.at = "l292"
    /\ poll' = PollIdle
    /\ UNCHANGED <<fnVars, wfVars, jobVars>>

NextPoll ==
    \/ \E data \in PollRequests : StartResearch(data)
    \/ \E j \in Ids :
        \/ Line138(j)
        \/ Line139(j)
        \/ GetPdfContext(j)
        \/ ConductResearchWorkflow(j)
        \/ Line178(j)
        \/ Line179(j)
        \/ Line180(j)
        \/ Line187(j)
        \/ Line188(j)
        \/ Line189(j)
    \/ ReaperScan
    \/ ReaperDelete
    \/ Tick
    \/ \E research_id \in Ids : PollLine289(research_id)
    \/ PollLine292

SpecPoll == Init /\ [][NextPoll]_vars

(***************************************************************************)
(* Claims about extract_references (SpecRefs).                             *)
(***************************************************************************)
\* Every URL that follows "Source: " on a line of some record's evidence.
AllSources(verification_results) ==
    UNION {{re_findall_sources(verification_results[i].verification_data)[k] :
               k \in 1..Len(re_findall_sources(
                                verification_results[i].verification_data))} :
           i \in 1..Len(verification_results)}

\* How many "Source: <url>" occurrences the records hold.
RECURSIVE SourceCount(_, _)
SourceCount(verification_results, i) ==
    IF i > Len(verification_results) THEN 0
    ELSE Len(re_findall_sources(verification_results[i].verification_data))
         + SourceCount(verification_results, i + 1)

\* The URL of the k-th entry: what follows its number and the ". " after it.
EntryUrl(references, k) ==
    SubSeq(references[k], Len(Str(k)) + 3, Len(references[k]))

\* C6: extract_references yields exactly one entry per distinct URL of the
\* evidence, also for a URL that contains ". ": no URL is entered twice and
\* none is dropped.
C6_OneEntryPerUrl ==
    ret # NotCalled =>
        \A u \in AllSources(arg) :
            Cardinality({k \in 1..Len(ret) : EntryUrl(ret, k) = u}) = 1

\* C7: the k-th entry of the returned list is "<k>. <url>" for a URL of the
\* evidence: the numbers start at 1 and rise by one.
C7_DenseNumbering ==
    ret # NotCalled =>
        \A k \in 1..Len(ret) :
            \E u \in AllSources(arg) :
                ret[k] = Str(k) \o <<".", " ">> \o u

\* C7 witness: a call that returned several entries after skipping a repeated
\* URL.
C7_Witness ==
    /\ ret # NotCalled
    /\ Len(ret) >= 2
    /\ SourceCount(arg, 1) > Len(ret)

(***************************************************************************)
(* Claims about the think-tag removal (SpecStrip).                         *)
(***************************************************************************)
\* C8: removing the think blocks a second time changes nothing.
C8_StripIdempotent ==
    ret # NotCalled => re_sub_think(ret) = ret

(***************************************************************************)
(* Claims about the job table (Spec).                                      *)
(***************************************************************************)
Terminal == {<<"completed">>, <<"error">>}

\* C1: a job is created queued, its status changes only from queued to
\* processing and from processing to completed or error, and once its status
\* is completed or error no field of its record changes again; the record
\* can then only be removed.
C1_Lifecycle ==
    [][\A j \in Ids :
        /\ (j \notin DOMAIN research_results /\ j \in DOMAIN research_results')
               => research_results'[j].status = <<"queued">>
        /\ (j \in DOMAIN research_results /\ j \in DOMAIN research_results')
               => /\ research_results[j].status \in Terminal
                       => research_results'[j] = research_results[j]
                  /\ research_results'[j].status # research_results[j].status
                       => \/ /\ research_results[j].status = <<"queued">>
                             /\ research_results'[j].status = <<"processing">>
                          \/ /\ research_results[j].status = <<"processing">>
                             /\ research_results'[j].status \in Terminal]_vars

\* C2: a job whose pipeline run ended in a raising stage (the workflow
\* returned its error result) finishes with status error and the exception
\* message as its error, never with status completed.
C2_FatalStageEndsInError ==
    \A j \in DOMAIN research_results :
        (pc[j] = "done" /\ locals[j].result.status = <<"error">>)
            => /\ research_results[j].status = <<"error">>
               /\ research_results[j].error = locals[j].result.error

\* C4: a poll at any point of the background task sees a consistent record:
\* status completed comes with completed_at and the result of the finished
\* run, status error comes with the error message and error_at.
C4_ConsistentSnapshot ==
    \A j \in Ids :
        LET response == get_research_results(j)
        IN  response.code = 200 =>
                /\ response.status = <<"completed">>
                       => /\ response.completed_at # <<>>
                          /\ response.draft = locals[j].result.draft_content
                          /\ response.research_output =
                                 locals[j].result.research_output
                /\ response.status = <<"error">>
                       => /\ response.error # <<"Unknown error">>
                          /\ response.error_at # <<>>

(***************************************************************************)
(* Claims about one run of the workflow (SpecWorkflow).                    *)
(***************************************************************************)
\* C3: when generate_fact_check_report raises, the returned state has
\* fact_check_report and draft_content unset and keeps the optimized_query,
\* research_output, claims and verification_results of the first four
\* stages.
C3_PartialStateKept ==
    (wpc = "returned" /\ raised_in = "generate_fact_check_report")
        => /\ wresult.fact_check_report = <<>>
           /\ wresult.draft_content = <<>>
           /\ wresult.optimized_query = wstate.optimized_query
           /\ wresult.research_output = wstate.research_output
           /\ {"claims", "verification_results"} \subseteq DOMAIN wresult
           /\ wresult.claims = wstate.claims
           /\ wresult.verification_results = wstate.verification_results

\* The verify_claims node has run to its end.
VerificationDone ==
    \/ wpc \in {"generate_fact_check_report", "create_draft_content", "end"}
    \/ /\ wpc \in {"except", "returned"}
       /\ raised_in \in {"", "generate_fact_check_report", "create_draft_content"}

Parity(claims, verification_results) ==
    /\ Len(verification_results) = Len(claims)
    /\ \A i \in 1..Len(claims) :
           verification_results[i].claim = get_or_none(claims[i], "claim")

\* The job record a poller sees once line 178 has stored the run's result.
StoredRecord ==
    update(new_record(wstate.query, wstate.content_style, <<>>, 0), wresult)

\* C5: once the verification stage has completed, and in the record stored
\* from the run's result, verification_results is as long as claims and its
\* i-th record carries the i-th claim's text.
C5_ClaimVerificationParity ==
    /\ VerificationDone
           => Parity(wstate.claims, wstate.verification_results)
    /\ wpc = "returned"
           => Parity(StoredRecord.claims, StoredRecord.verification_results)

\* C5 witness: the verification stage completed for two different claims, one
\* of them verified by the model.
C5_Witness ==
    /\ VerificationDone
    /\ Len(wstate.claims) = 2
    /\ wstate.claims[1] # wstate.claims[2]
    /\ \E i \in 1..2 : wstate.verification_results[i].accuracy_score = 8

\* The calls the extract_key_claims node made.
ExtractCalls == {k \in 1..Len(log) : log[k].node = "extract_key_claims"}

\* C9: the claim-extraction stage never raises: whatever the model answered,
\* the run went on to verify_claims with a list of claims, and for a
\* non-JSON answer that list is one claim of importance low.
C9_ExtractionNeverRaises ==
    /\ raised_in # "extract_key_claims"
    /\ \A k \in ExtractCalls :
           /\ wpc # "extract_key_claims"
           /\ DOMAIN wstate.claims = 1..Len(wstate.claims)
           /\ (log[k].answer.kind = JsonNotJson.kind
                  /\ log[k].answer.text = JsonNotJson.text)
                  => /\ Len(wstate.claims) = 1
                     /\ wstate.claims[1].importance = <<"low">>

\* C9 witness: the model's answer was not JSON and the run is at
\* verify_claims.
C9_Witness ==
    /\ wpc = "verify_claims"
    /\ \E k \in ExtractCalls :
           /\ log[k].answer.kind = JsonNotJson.kind
           /\ log[k].answer.text = JsonNotJson.text

\* C10: the verification stage never fails the pipeline: with claims that
\* are claim objects, whatever the search tool and the model answer, the
\* verify_claims node does not raise.
C10_VerificationNeverFails ==
    (\A i \in 1..Len(wstate.claims) : wstate.claims[i].kind = "dict")
        => raised_in # "verify_claims"

\* The position of a node in the order of the graph's edges.
StageIndex(node) == CHOOSE n \in 1..Len(StageNames) : StageNames[n] = node

\* One step of a run: the node that is due runs, makes calls of its own only
\* and hands over to the next node of the fixed order, or raises and ends the
\* run; after the last node or a raise the run only returns.
StageStep ==
    \/ /\ \E n \in 1..Len(StageNames) :
              /\ wpc = StageNames[n]
              /\ \/ /\ wpc' = (IF n < Len(StageNames)
                               THEN StageNames[n + 1] ELSE "end")
                    /\ raised_in' = ""
                 \/ /\ wpc' = "except"
                    /\ raised_in' = wpc
                    /\ wstate' = wstate
       /\ raised_in = ""
       /\ SubSeq(log', 1, Len(log)) = log
       /\ \A k \in (Len(log) + 1)..Len(log') : log'[k].node = wpc
    \/ /\ wpc \in {"end", "except"}
       /\ wpc' = "returned"
       /\ UNCHANGED <<wstate, log>>

\* C11: the stages of a run execute in the fixed order optimize_query,
\* conduct_research, extract_key_claims, verify_claims,
\* generate_fact_check_report, create_draft_content, each at most once and
\* one at a time, a stage starting only when the one before it has returned,
\* and no stage starts after one has raised.
C11_StageOrder ==
    /\ [](\A k \in 1..(Len(log) - 1) :
              StageIndex(log[k].node) <= StageIndex(log[k + 1].node))
    /\ [][StageStep]_vars

\* C11 witness: a run that went through all six stages and returned.
C11_Witness ==
    /\ wpc = "returned"
    /\ raised_in = ""
    /\ {log[k].node : k \in 1..Len(log)} = {StageNames[n] : n \in 1..Len(StageNames)}

(***************************************************************************)
(* Claims about submission and polling (Spec).                             *)
(***************************************************************************)
\* A request the interface must reject: no query or an empty one, a style
\* that is none of 1, 2, 3, or a document id that is not in the store.
MustReject(data) ==
    \/ data.query = NoKey
    \/ data.query = <<>>
    \/ data.style \notin {NoKey, <<"1">>, <<"2">>, <<"3">>}
    \/ \E k \in 1..Len(data.pdf_ids) : data.pdf_ids[k] \notin pdf_documents

\* C12: a submission with a style outside {1,2,3}, with no query or an empty
\* one, or with an unknown document id adds no record, starts no background
\* task and leaves the job table unchanged.
C12_RejectedSubmissionChangesNothing ==
    [][\A data \in Requests :
          (MustReject(data) /\ StartResearch(data))
              => UNCHANGED <<research_results, next_id, pc, locals>>]_vars

\* C13: a poll fails with 404 exactly when the id is not in the table, and
\* for an id that is in the table it returns the job's status; a poll leaves
\* the table unchanged.
C13_NotFoundIffAbsent ==
    [][/\ \A research_id \in Ids :
              (PollLine289(research_id) /\ poll'.at = "idle")
                  => research_id \notin DOMAIN research_results
       /\ PollLine292
              => LET response == Line292Response(poll.research_id)
                 IN  /\ response.code = 404
                            <=> poll.research_id \notin DOMAIN research_results
                     /\ poll.research_id \in DOMAIN research_results
                            => /\ response.code = 200
                               /\ response.status =
                                      research_results[poll.research_id].status]_vars

\* The names under which a response or a record carries what the pipeline
\* produced.
ContentKeys ==
    {"optimized_query", "query_optimized", "research_output", "claims",
     "verification_results", "references", "fact_check_report",
     "draft_content", "draft"}

\* The fields of the response to a poll of a job in progress.
ProgressKeys ==
    {"code", "research_id", "status", "message", "created_at",
     "processing_started", "query", "content_style", "pdf_ids"}

\* C14: while a job's status is queued or processing, and so at every point
\* of its thread up to the call of the pipeline and its return, a poll
\* returns the status and the timestamps and nothing the pipeline produced.
C14_ProgressOnly ==
    \A j \in DOMAIN research_results :
        LET response == get_research_results(j)
        IN  /\ response.status \in {<<"queued">>, <<"processing">>}
                   => /\ DOMAIN response = ProgressKeys
                      /\ DOMAIN response \cap ContentKeys = {}
            /\ pc[j] \in {"l138", "l139", "l141", "l175", "l178"}
                   => response.status \in {<<"queued">>, <<"processing">>}

\* C14 witness: the pipeline of a job has returned a draft to the thread, the
\* record still says processing.
C14_Witness ==
    \E j \in DOMAIN research_results :
        /\ pc[j] = "l178"
        /\ locals[j].result.status = <<"completed">>
        /\ get_research_results(j).status = <<"processing">>

(***************************************************************************)
(* Claims about the progress of a job (FairSpec).                          *)
(***************************************************************************)
HasStatus(j, statuses) ==
    j \in DOMAIN research_results /\ research_results[j].status \in statuses

\* C15: every accepted submission, queued at first, eventually becomes
\* processing and then completed or error, and when every call of the
\* pipeline succeeded it ends completed.
C15_EveryJobFinishes ==
    /\ \A j \in Ids :
           HasStatus(j, {<<"queued">>}) ~> HasStatus(j, {<<"processing">>})
    /\ \A j \in Ids :
           HasStatus(j, {<<"processing">>}) ~> HasStatus(j, Terminal)
    /\ [](\A j \in DOMAIN research_results :
              (pc[j] = "done" /\ locals[j].result.status = <<"completed">>)
                  => research_results[j].status = <<"completed">>)

\* C15 witness: a job whose pipeline calls all succeeded has finished.
C15_Witness ==
    \E j \in DOMAIN research_results :
        /\ pc[j] = "done"
        /\ locals[j].result.status = <<"completed">>
        /\ research_results[j].status = <<"completed">>

\* C16: in every interleaving of the reaper with submissions and background
\* tasks, a step that removes a record from the table removes one whose
\* status is completed or error, whose completed_at (or else error_at) is
\* more than the retention window old, and whose thread has no write left;
\* the step leaves every other record as it was.
TerminalStamp(data) ==
    IF data.completed_at # NoKey THEN data.completed_at ELSE data.error_at

C16_ReaperRemovesOnlyExpired ==
    [][\A j \in DOMAIN research_results :
           j \notin DOMAIN research_results' =>
               /\ research_results[j].status \in Terminal
               /\ TerminalStamp(research_results[j]) # NoKey
               /\ now - fromisoformat(TerminalStamp(research_results[j]))
                      > RetentionDays
               /\ pc[j] = "done"
               /\ \A i \in DOMAIN research_results \ {j} :
                      /\ i \in DOMAIN research_results'
                      /\ research_results'[i] = research_results[i]]_vars

\* The reaper has removed a finished job while another job is still running.
C16_Witness ==
    \E j, i \in Ids :
        /\ pc[j] = "done"
        /\ j \notin DOMAIN research_results
        /\ i \in DOMAIN research_results
        /\ pc[i] \notin {"unborn", "done"}

\* C17: with several jobs running at once, a step that changes a field of a
\* record that exists before and after it is a step of that record's own
\* thread: the thread of that job moves, no other thread moves, and the step
\* is neither a poller's nor the reaper's nor a submission.
C17_OnlyOwnThreadWrites ==
    [][\A j \in DOMAIN research_results \cap DOMAIN research_results' :
           research_results'[j] # research_results[j] =>
               /\ pc[j] \notin {"unborn", "done"}
               /\ pc'[j] # pc[j]
               /\ \A i \in Ids \ {j} :
                      /\ pc'[i] = pc[i]
                      /\ locals'[i] = locals[i]
                      /\ i \in DOMAIN research_results =>
                             /\ i \in DOMAIN research_results'
                             /\ research_results'[i] = research_results[i]
               /\ UNCHANGED <<poll, to_delete, next_id>>]_vars

\* Two jobs are being processed at once while a poll is between its
\* membership test and its read.
C17_Witness ==
    /\ poll.at = "l292"
    /\ \E i, j \in DOMAIN research_results :
           /\ i # j
           /\ research_results[i].status = <<"processing">>
           /\ research_results[j].status = <<"processing">>
           /\ pc[i] # pc[j]

\* C18: when a job's thread raised outside conduct_research_workflow (the
\* retrieval pipeline or the document store could not be obtained), the
\* thread ends with the record's status error, the exception's message in
\* error and error_at set; and the steps from the raise to the end of the
\* except block change no other job's record, thread position or locals.
ThreadEnded(j) == pc[j] \in {"done", "dead"}

InExceptPath(j) == pc[j] \in {"l141", "l187", "l188", "l189"}

C18_TaskCrashEndsInError ==
    /\ [](\A j \in DOMAIN research_results :
              (ThreadEnded(j) /\ locals[j].e # <<>>) =>
                  /\ research_results[j].status = <<"error">>
                  /\ research_results[j].error = locals[j].e
                  /\ research_results[j].error_at # NoKey)
    /\ [][\A j \in Ids :
              (InExceptPath(j) /\ pc'[j] # pc[j]) =>
                  \A i \in Ids \ {j} :
                      /\ pc'[i] = pc[i]
                      /\ locals'[i] = locals[i]
                      /\ i \in DOMAIN research_results =>
                             /\ i \in DOMAIN research_results'
                             /\ research_results'[i] = research_results[i]]_vars

\* A job whose retrieval pipeline could not be obtained has ended in error
\* while another job is still running.
C18_Witness ==
    \E j, i \in DOMAIN research_results :
        /\ pc[j] = "done"
        /\ locals[j].e = <<"no pipeline">>
        /\ research_results[j].status = <<"error">>
        /\ research_results[j].error = <<"no pipeline">>
        /\ pc[i] \notin {"unborn", "done"}

\* C19: submission does no pipeline work. A step that creates job j stores
\* its record with status queued, starts its thread at line 138 with no
\* retrieval context and no pipeline result, and answers with the id and
\* research_status queued; and a step that gives job j a retrieval context
\* or a pipeline result is a step of j's thread at line 141 or 175, taken
\* while j's record exists and says processing.
C19_SubmissionDoesNoPipelineWork ==
    [][\A j \in Ids :
           /\ (pc[j] = "unborn" /\ pc'[j] # "unborn") =>
                  /\ j \in DOMAIN research_results'
                  /\ research_results'[j].status = <<"queued">>
                  /\ pc'[j] = "l138"
                  /\ locals'[j].result = NoResult
                  /\ locals'[j].pdf_context = <<>>
                  /\ \A data \in Requests :
                         StartResearch(data) =>
                             /\ start_research_response(j, data)'.research_id = j
                             /\ start_research_response(j, data)'.research_status
                                    = <<"queued">>
           /\ (/\ pc[j] # "unborn"
               /\ \/ locals'[j].result # locals[j].result
                  \/ locals'[j].pdf_context # locals[j].pdf_context) =>
                  /\ pc[j] \in {"l141", "l175"}
                  /\ j \in DOMAIN research_results
                  /\ research_results[j].status = <<"processing">>]_vars

\* A job's thread has a pipeline result, obtained after the record went to
\* processing, while a second job has just been submitted and is queued.
C19_Witness ==
    \E j, i \in DOMAIN research_results :
        /\ locals[j].result # NoResult
        /\ locals[j].pdf_context # <<>>
        /\ pc[i] = "l138"
        /\ research_results[i].status = <<"queued">>

\* C20: in every reachable state of the job table a record has an error
\* message only if its status is error.
C20_ErrorOnlyWithStatusError ==
    \A j \in DOMAIN research_results :
        research_results[j].error # NoKey =>
            research_results[j].status = <<"error">>

\* C21: each stage writes only its own output fields.  A step of the workflow
\* that changes a field of the state is a step of the one stage that owns
\* the field: optimized_query stage 1, research_output stage 2, claims stage
\* 3, verification_results and references stage 4, fact_check_report stage 5,
\* draft_content and status stage 6; query, content_style and pdf_context
\* have no owner and never change.
Writer(field) ==
    CASE field = "optimized_query" -> "optimize_query"
      [] field = "research_output" -> "conduct_research"
      [] field = "claims" -> "extract_key_claims"
      [] field \in {"verification_results", "references"} -> "verify_claims"
      [] field = "fact_check_report" -> "generate_fact_check_report"
      [] field \in {"draft_content", "status"} -> "create_draft_content"
      [] OTHER -> "<no stage>"

C21_StageFrame ==
    [][/\ DOMAIN wstate' = DOMAIN wstate
       /\ \A field \in DOMAIN wstate :
              wstate'[field] # wstate[field] => wpc = Writer(field)]_vars

\* All six stages have run and each has written its fields.
C21_Witness ==
    /\ wpc = "end"
    /\ wstate.optimized_query # <<>>
    /\ wstate.research_output # <<>>
    /\ wstate.claims # <<>>
    /\ wstate.verification_results # <<>>
    /\ wstate.references # <<>>
    /\ wstate.fact_check_report # <<>>
    /\ wstate.draft_content # <<>>
    /\ wstate.status = <<"completed">>

\* C22: the research stage never raises.  Whatever the search provider and
\* the two model calls answer, the step of conduct_research goes on to
\* extract_key_claims with no exception and with research_output a text; and
\* when the provider or one of the model calls raised, that text is a
\* placeholder describing the error.
NewCalls == {log'[k] : k \in (Len(log) + 1)..Len(log')}

CallRaised(c) ==
    IF c.to = "tavily_search" THEN c.answer.kind = "raise" ELSE c.answer.raised

Placeholders ==
    {"Research could not be completed due to an error: ",
     "Could not summarize search results due to an error: "}

C22_ResearchNeverRaises ==
    [][wpc = "conduct_research" =>
           /\ wpc' = "extract_key_claims"
           /\ exc' = <<>>
           /\ raised_in' = ""
           /\ wstate'.research_output # <<>>
           /\ (\E c \in NewCalls : CallRaised(c)) =>
                  Head(wstate'.research_output) \in Placeholders]_vars

\* C23: a job is created only for a style value 1, 2 or 3 (1 when the body
\* has no style), with content_style "blog post", "detailed report" or
\* "executive summary" respectively, and the content_style of a record
\* never changes afterwards.
StyleName(style) ==
    CASE style = <<"1">> -> <<"blog post">>
      [] style = <<"2">> -> <<"detailed report">>
      [] style = <<"3">> -> <<"executive summary">>
      [] OTHER -> <<"<no style>">>

C23_StyleMapping ==
    /\ [][\A data \in Requests :
              (StartResearch(data) /\ next_id' # next_id) =>
                  LET style == IF data.style = NoKey THEN <<"1">> ELSE data.style
                  IN  /\ style \in {<<"1">>, <<"2">>, <<"3">>}
                      /\ research_results'[next_id].content_style
                             = StyleName(style)]_vars
    /\ [][\A j \in DOMAIN research_results \cap DOMAIN research_results' :
              research_results'[j].content_style
                  = research_results[j].content_style]_vars

\* C24: once the verification stage has completed, the verification_data of
\* the i-th verification record is the evidence text that was passed to the
\* verification model for the i-th claim, and the search provider was asked
\* once per claim.
IsVerifyModelCall(c) == c.node = "verify_claims" /\ c.to = "fact_checker_llm"

IsVerifySearchCall(c) ==
    c.node = "verify_claims" /\ c.to = "fact_verification_search"

C24_StoredEvidenceIsJudgedEvidence ==
    VerificationDone =>
        LET judged == SelectSeq(log, IsVerifyModelCall)
            searched == SelectSeq(log, IsVerifySearchCall)
        IN  /\ Len(judged) = Len(wstate.verification_results)
            /\ Len(searched) = Len(wstate.verification_results)
            /\ \A i \in 1..Len(judged) :
                   wstate.verification_results[i].verification_data
                       = judged[i].input[2]

\* C25: conduct_research_workflow never raises.  A call ends by returning:
\* when a stage raised, a dict whose status is error and whose error is the
\* exception's message; otherwise the final state, whose status is completed.
\* It returns completed only when no stage raised and the draft stage ran;
\* until the draft stage has returned the state's status is in_progress.
C25_OrchestratorNeverRaises ==
    /\ [](wpc = "returned" =>
              /\ wresult # NoResult
              /\ wresult.status \in {<<"completed">>, <<"error">>}
              /\ raised_in # "" =>
                     /\ wresult.status = <<"error">>
                     /\ wresult.error = exc
              /\ wresult.status = <<"completed">> =>
                     /\ raised_in = ""
                     /\ wresult = wstate
                     /\ \E k \in 1..Len(log) :
                            /\ log[k].node = "create_draft_content"
                            /\ ~log[k].answer.raised)
    /\ [](wstate.status =
              IF raised_in = "" /\ wpc \in {"end", "returned"}
              THEN <<"completed">> ELSE <<"in_progress">>)
    /\ [][(wpc \in {"end", "except"}) => wpc' = "returned"]_vars

\* The report stage raised after four stages had returned, and the call
\* returned the error dict.
C25_Witness ==
    /\ wpc = "returned"
    /\ raised_in = "generate_fact_check_report"
    /\ wresult.status = <<"error">>
    /\ wresult.error = ModelDown
    /\ wstate.verification_results # <<>>

\* C26: in the research stage the document-context merge call is made if and
\* only if pdf_context is non-empty and not only whitespace; when it is made
\* research_output is the merge call's output, and when it is not made
\* research_output is the web-only summary and the stage made exactly one
\* model call.
HasContext == wstate.pdf_context # <<>> /\ ~(\A k \in 1..Len(wstate.pdf_context) :
                                                wstate.pdf_context[k] \in {" ", "\n"})

ModelCalls == {c \in NewCalls : c.to = "research_llm"}

MergeCalls == {c \in ModelCalls : Len(c.input) = 3}

SummaryCalls == {c \in ModelCalls : Len(c.input) = 2}

SummaryOf(c) ==
    IF c.answer.raised
    THEN <<"Could not summarize search results due to an error: ">>
             \o c.answer.text
    ELSE c.answer.text

MergeMade ==
    /\ Cardinality(MergeCalls) = 1
    /\ Cardinality(SummaryCalls) = 1
    /\ \A m \in MergeCalls : ~m.answer.raised =>
           wstate'.research_output = m.answer.text

MergeNotMade ==
    /\ MergeCalls = {}
    /\ Cardinality(ModelCalls) = 1
    /\ \A c \in SummaryCalls : wstate'.research_output = SummaryOf(c)

C26_MergeIffContext ==
    [][wpc = "conduct_research" =>
           /\ (MergeCalls # {}) <=> HasContext
           /\ IF HasContext THEN MergeMade ELSE MergeNotMade]_vars

\* C26 as the code has it: the same, provided the search call returned; when
\* the search call raised the stage makes no model call at all, and when the
\* search call or the merge call raised research_output is the placeholder
\* with the exception's message.
SearchRaised == \E c \in NewCalls : c.to = "tavily_search" /\ c.answer.kind = "raise"

ErrorPlaceholder(msg) ==
    <<"Research could not be completed due to an error: ">> \o msg

C26_MergeIffContextUnlessSearchRaised ==
    [][wpc = "conduct_research" =>
           IF SearchRaised
           THEN /\ ModelCalls = {}
                /\ \A c \in NewCalls :
                       wstate'.research_output = ErrorPlaceholder(c.answer.text)
           ELSE /\ IF HasContext THEN MergeMade ELSE MergeNotMade
                /\ \A m \in MergeCalls : m.answer.raised =>
                       wstate'.research_output = ErrorPlaceholder(m.answer.text)]_vars

\* The stage has run with a document context and its output is the merge
\* call's.
C26_Witness ==
    /\ wpc = "extract_key_claims"
    /\ wstate.pdf_context = <<"context">>
    /\ wstate.research_output = <<"merged">>
    /\ \E k \in 1..Len(log) :
           /\ log[k].node = "conduct_research"
           /\ log[k].to = "research_llm"
           /\ Len(log[k].input) = 3

\* C27: once the claim-extraction stage has run, claims is the sentinel list
\* (one claim "No claims could be extracted" with importance low) both when
\* the model call or its decoding failed and when the decoded value is
\* neither a list nor an object with a claim key; and it is the one-element
\* list of the decoded value when that is a single object with a claim key.
ExtractionDone ==
    /\ wpc \notin {"idle", "optimize_query", "conduct_research",
                    "extract_key_claims"}
    /\ raised_in \notin {"optimize_query", "conduct_research",
                          "extract_key_claims"}

Sentinel ==
    <<[kind |-> "dict", items |-> <<>>,
       claim |-> <<"No claims could be extracted">>, importance |-> <<"low">>]>>

C27_SameSentinelOnFailure ==
    ExtractionDone =>
        \A k \in ExtractCalls :
            LET answer == log[k].answer
            IN  IF answer.kind = "raise" THEN wstate.claims = Sentinel
                ELSE IF answer.value.kind = "list" THEN TRUE
                ELSE IF answer.value.kind = "dict" /\ answer.value.claim # NoKey
                     THEN wstate.claims = <<answer.value>>
                ELSE wstate.claims = Sentinel

\* C28: whenever the verification stage starts, claims is a non-empty
\* sequence whose elements are all objects with a claim and an importance.
C28_ClaimsNonEmptyAndWellFormed ==
    wpc = "verify_claims" =>
        /\ Len(wstate.claims) >= 1
        /\ \A i \in 1..Len(wstate.claims) :
               /\ wstate.claims[i].kind = "dict"
               /\ wstate.claims[i].claim # NoKey
               /\ wstate.claims[i].importance # NoKey

\* C29: extract_references is order-preserving and sound.  Every returned
\* URL is the URL of a line "Source: http(s)://..." of some record's
\* verification_data (so a result without a URL gives no entry), and the
\* returned URLs are in the order in which they first occur on such lines,
\* reading the records in order and each text from its start.
RECURSIVE SourceLines(_, _)
SourceLines(s, i) ==
    IF i > Len(s) THEN <<>>
    ELSE IF /\ (i = 1 \/ s[i - 1] = "\n")
            /\ s[i] = "Source: "
            /\ i + 2 <= Len(s)
            /\ s[i + 1] \in {"http://", "https://"}
            /\ s[i + 2] # "\n"
         THEN <<SubSeq(s, i + 1, LineEnd(s, i + 2))>>
                  \o SourceLines(s, LineEnd(s, i + 2) + 1)
         ELSE SourceLines(s, i + 1)

RECURSIVE Occurrences(_, _)
Occurrences(verification_results, i) ==
    IF i > Len(verification_results) THEN <<>>
    ELSE SourceLines(verification_results[i].verification_data, 1)
             \o Occurrences(verification_results, i + 1)

FirstOccurrence(occ, u) == Min({i \in 1..Len(occ) : occ[i] = u})

C29_OrderPreservingAndSound ==
    ret # NotCalled =>
        LET occ == Occurrences(arg, 1)
        IN  /\ \A k \in 1..Len(ret) :
                   \E i \in 1..Len(occ) : occ[i] = EntryUrl(ret, k)
            /\ \A k, l \in 1..Len(ret) :
                   k < l => FirstOccurrence(occ, EntryUrl(ret, k))
                               <= FirstOccurrence(occ, EntryUrl(ret, l))

\* C30: for a job submitted with document ids, a retrieval pipeline that is
\* unavailable, or a get_relevant_context that raises, is the same as an
\* empty context: the failure is never the exception the task ends with and
\* never the job's error, the task goes on to line 175 with pdf_context
\* empty, so that the research output is not the merged one; and the
\* context does not change once the task has left lines 141-172.
RetrievalFailed(j) == locals[j].e = <<"no pipeline">>

C30_RetrievalFailureIsEmptyContext ==
    /\ [](\A j \in DOMAIN research_results :
              locals[j].pdf_ids # <<>> =>
                  /\ ~RetrievalFailed(j)
                  /\ research_results[j].error # <<"no pipeline">>
                  /\ (locals[j].pdf_context = <<>> /\ locals[j].result # NoResult)
                         => locals[j].result.research_output # <<"merged">>)
    /\ [][\A j \in Ids :
              pc[j] \notin {"unborn", "l141"} =>
                  locals'[j].pdf_context = locals[j].pdf_context]_vars

====
